---------------------------- MODULE Spec2Model ----------------------------
(***************************************************************************)
(* A model of the NotReal.ly backend (src/backend): the upload endpoint    *)
(* and its job record (app.py, db.py, predictor.py), the feature vector    *)
(* (feature_extractor.py: ExtractedFeatures.to_feature_vector) and the     *)
(* three extraction branches (extract_video_features with its blink state  *)
(* machine, extract_audio_features, extract_metadata_features).            *)
(*                                                                         *)
(* Three specifications share the module:                                  *)
(*   Spec         the HTTP layer: concurrent POST /api/analyze requests    *)
(*                and GET /api/results polls over one jobs table;          *)
(*   SpecVector   to_feature_vector applied to every combination of        *)
(*                present and absent summaries;                            *)
(*   SpecExtract  extract_features on one video: the frame loop, then the  *)
(*                audio branch, then the metadata branch.                  *)
(*                                                                         *)
(* Numbers.  Python floats are modelled as integers in thousandths         *)
(* (0.21 is 210, a blink rate of 10 per minute is 10000).  The EAR samples *)
(* offered to the blink detector are dyadic (0.125, 0.375), for which the  *)
(* float sums of the code are exact and the comparisons of the model are   *)
(* the comparisons of the code.  Probabilities are in hundredths.          *)
(*                                                                         *)
(* Optional values.  Python's Optional[T] is a set with at most one        *)
(* element: None is {}, a present value x is {x}.                          *)
(***************************************************************************)
EXTENDS Integers, Sequences, FiniteSets, TLC

None == {}
Some(x) == {x}
Get(o) == CHOOSE x \in o : TRUE

Max(a, b) == IF a >= b THEN a ELSE b
Abs(a) == IF a >= 0 THEN a ELSE 0 - a

VARIABLES
  \* ---- HTTP layer (app.py, db.py, predictor.py)
  jobs,            \* the jobs table: job id -> [status, results_json]
  pc,              \* per request: the place analyze_video has reached
  local,           \* per request: analyze_video's local variables
  response,        \* per request: the HTTP response sent, if any
  polled,          \* per request: what its client last read from GET /api/results
  model_present,   \* os.path.exists(MODEL_PATH)
  writes,          \* history: per job id, the committed update_job_result calls
  steps_run,       \* history: per request, the pipeline steps that ran
  \* ---- to_feature_vector
  fv_features,     \* the ExtractedFeatures the vector is built from
  fv_vector,       \* the vector built, <<>> before the call
  \* ---- extract_features on one video (feature_extractor.py)
  deps,            \* which optional imports succeeded: cv2, mp, np_librosa, ffmpeg
  xpc,             \* the place extract_features has reached
  frame_stride,    \* the frame_stride argument
  fps,             \* cap.get(CAP_PROP_FPS) or 30.0
  cap,             \* the capture handle: "none", "unopened", "open", "released"
  face_mesh,       \* the FaceMesh context: "none", "open", "closed"
  frame_index,
  ear_window,      \* deque(maxlen=15) of raw EAR samples
  prev_ear_above,
  frames_since_last_blink,
  min_frames_between_blinks,
  blinks,
  frames_analyzed,
  prev_nose,       \* Optional nose position
  jitter_distances,
  video_stats,     \* Optional results of the three branches
  audio_stats,
  metadata_stats,
  tmp_wav,         \* the temporary WAV files on disk
  exc,             \* Optional: the exception extract_features raised
  blink_frames,    \* history: the analyzed frames (1, 2, ...) that counted a blink
  \* ---- the narrative summary of one result (app.py lines 64-76)
  sm_score,        \* authenticity_score, thousandths
  sm_legacy,       \* legacy_features
  sm_summary,      \* summary_text as the sequence of its pieces, <<>> before
  sm_features,     \* Optional: the extracted features the legacy fields come from
  \* ---- a scripted landmark stream fed to extract_video_features
  sc_stream        \* the raw EAR of each offered frame, <<>>: any stream

jobVars == <<jobs, pc, local, response, polled, model_present, writes, steps_run>>
vecVars == <<fv_features, fv_vector>>
loopVars == <<frame_index, ear_window, prev_ear_above, frames_since_last_blink,
              min_frames_between_blinks, blinks, frames_analyzed, prev_nose,
              jitter_distances, blink_frames>>
exVars == <<deps, xpc, frame_stride, fps, cap, face_mesh, loopVars,
            video_stats, audio_stats, metadata_stats, tmp_wav, exc>>
auxVars == <<sm_score, sm_legacy, sm_summary, sm_features, sc_stream>>
vars == <<jobVars, vecVars, exVars, auxVars>>


(***************************************************************************)
(* feature_extractor.py: ExtractedFeatures.to_feature_vector               *)
(***************************************************************************)

\* def g(x): float(x) if x is not None else 0.0
g(x) == IF x # None THEN Get(x) ELSE 0

\* Mutant: the vector is assembled from the summaries that are present, so an
\* absent summary shrinks it.
to_feature_vector_Shrinks(self) ==
  (IF self.video # None
     THEN << Get(self.video).avg_blink_rate_per_minute,
             Get(self.video).facial_jitter_std_dev >>
     ELSE << >>)
  \o (IF self.audio # None
        THEN << Get(self.audio).audio_mfcc_mean, Get(self.audio).audio_mfcc_std >>
        ELSE << >>)
  \o (IF self.metadata # None
        THEN << g(Get(self.metadata).duration_seconds), g(Get(self.metadata).bit_rate),
                g(Get(self.metadata).video_avg_fps), g(Get(self.metadata).video_width),
                g(Get(self.metadata).video_height),
                g(Get(self.metadata).audio_sample_rate) >>
        ELSE << 0, 0, 0, 0, 0, 0 >>)

\* Mutant: the two audio slots are written in the other order.
to_feature_vector_AudioSwapped(self) ==
  << IF self.video # None THEN Get(self.video).avg_blink_rate_per_minute ELSE 0,
     IF self.video # None THEN Get(self.video).facial_jitter_std_dev ELSE 0,
     IF self.audio # None THEN Get(self.audio).audio_mfcc_std ELSE 0,
     IF self.audio # None THEN Get(self.audio).audio_mfcc_mean ELSE 0,
     IF self.metadata # None THEN g(Get(self.metadata).duration_seconds) ELSE 0,
     IF self.metadata # None THEN g(Get(self.metadata).bit_rate) ELSE 0,
     IF self.metadata # None THEN g(Get(self.metadata).video_avg_fps) ELSE 0,
     IF self.metadata # None THEN g(Get(self.metadata).video_width) ELSE 0,
     IF self.metadata # None THEN g(Get(self.metadata).video_height) ELSE 0,
     IF self.metadata # None THEN g(Get(self.metadata).audio_sample_rate) ELSE 0 >>

\* The ten slots, in the order of the return statement.  A dataclass instance
\* is always truthy, so "if self.video" tests for None.
to_feature_vector(self) ==
  << IF self.video # None THEN g(Some(Get(self.video).avg_blink_rate_per_minute)) ELSE 0,
     IF self.video # None THEN g(Some(Get(self.video).facial_jitter_std_dev)) ELSE 0,
     IF self.audio # None THEN g(Some(Get(self.audio).audio_mfcc_mean)) ELSE 0,
     IF self.audio # None THEN g(Some(Get(self.audio).audio_mfcc_std)) ELSE 0,
     IF self.metadata # None THEN g(Get(self.metadata).duration_seconds) ELSE 0,
     IF self.metadata # None /\ Get(self.metadata).bit_rate # None
       THEN Get(Get(self.metadata).bit_rate) ELSE 0,
     IF self.metadata # None THEN g(Get(self.metadata).video_avg_fps) ELSE 0,
     IF self.metadata # None /\ Get(self.metadata).video_width # None
       THEN Get(Get(self.metadata).video_width) ELSE 0,
     IF self.metadata # None /\ Get(self.metadata).video_height # None
       THEN Get(Get(self.metadata).video_height) ELSE 0,
     IF self.metadata # None /\ Get(self.metadata).audio_sample_rate # None
       THEN Get(Get(self.metadata).audio_sample_rate) ELSE 0 >>

VideoFeatureStats(blink, jitter, frames) ==
  [avg_blink_rate_per_minute |-> blink, facial_jitter_std_dev |-> jitter,
   frames_analyzed |-> frames]

AudioFeatureStats(mean, std, sr, dur) ==
  [audio_mfcc_mean |-> mean, audio_mfcc_std |-> std, sample_rate |-> sr,
   duration_seconds |-> dur]

\* The six fields of MetadataStats the vector reads, each Optional.
MetadataStats(dur, br, avg_fps, w, h, sr) ==
  [duration_seconds |-> dur, bit_rate |-> br, video_avg_fps |-> avg_fps,
   video_width |-> w, video_height |-> h, audio_sample_rate |-> sr]

ExtractedFeatures(v, a, m) == [video |-> v, audio |-> a, metadata |-> m]

(***************************************************************************)
(* app.py: the score and the summary (analyze_video, lines 55-87)          *)
(***************************************************************************)

\* "x or 0.0": a falsy float is 0.0
OrZero(x) == IF x = 0 THEN 0 ELSE x

\* Mutant: an absent video summary gives a neutral blink rate of 15 per minute.
legacy_features_NeutralDefault(features) ==
  [blink_rate |->
     IF features.video # None
       THEN OrZero(Get(features.video).avg_blink_rate_per_minute) ELSE 15000,
   facial_jitter |->
     OrZero(IF features.video # None
              THEN Get(features.video).facial_jitter_std_dev ELSE 0),
   audio_mfcc_variance |->
     OrZero(IF features.audio # None
              THEN Get(features.audio).audio_mfcc_std ELSE 0)]

legacy_features(features) ==
  [blink_rate |->
     OrZero(IF features.video # None
              THEN Get(features.video).avg_blink_rate_per_minute ELSE 0),
   facial_jitter |->
     OrZero(IF features.video # None
              THEN Get(features.video).facial_jitter_std_dev ELSE 0),
   audio_mfcc_variance |->
     OrZero(IF features.audio # None
              THEN Get(features.audio).audio_mfcc_std ELSE 0)]

\* ", ".join(parts): the text is kept as the sequence of its pieces
RECURSIVE Join(_)
Join(parts) ==
  IF Len(parts) <= 1 THEN parts
  ELSE <<Head(parts), ", ">> \o Join(Tail(parts))

summary_parts(legacy) ==
  (IF legacy.blink_rate < 10000 THEN <<"low blink rate">> ELSE <<>>)
  \o (IF legacy.facial_jitter >= 200 THEN <<"high facial jitter">> ELSE <<>>)
  \o (IF legacy.audio_mfcc_variance >= 300
        THEN <<"synthetic-sounding audio patterns">> ELSE <<>>)

\* Mutant: a score of exactly 80 is not enough for the "real" sentence.
summary_text_ScoreStrict(authenticity_score, legacy) ==
  IF authenticity_score > 80000
    THEN <<"This appears to be a real video.">>
    ELSE LET parts == summary_parts(legacy)
             reason == IF parts # <<>> THEN Join(parts)
                       ELSE <<"multiple subtle cues">>
         IN <<"Potential deepfake indicators: ">> \o reason \o <<".">>

summary_text(authenticity_score, legacy) ==
  IF authenticity_score >= 80000
    THEN <<"This appears to be a real video.">>
    ELSE LET parts == summary_parts(legacy)
             reason == IF parts # <<>> THEN Join(parts)
                       ELSE <<"multiple subtle cues">>
         IN <<"Potential deepfake indicators: ">> \o reason \o <<".">>

\* authenticity_score = float(prob_real * 100.0)
authenticity_score_of(prob_real) == prob_real * 100

build_results(features, prob_real, prob_fake) ==
  [authenticity_score |-> authenticity_score_of(prob_real),
   confidence |-> Max(prob_real, prob_fake),
   probabilities |-> [real |-> prob_real, fake |-> prob_fake],
   features |-> legacy_features(features),
   summary |-> summary_text(authenticity_score_of(prob_real),
                            legacy_features(features))]

(***************************************************************************)
(* db.py: the jobs table                                                   *)
(***************************************************************************)

\* INSERT INTO jobs (...) VALUES (..., status, ..., None)
insert_job(db, job_id, status) ==
  [j \in DOMAIN db \cup {job_id} |->
     IF j = job_id THEN [status |-> status, results_json |-> None] ELSE db[j]]

\* Mutant: the UPDATE without its WHERE clause writes every row.
update_job_result_NoWhere(db, job_id, status, results) ==
  [j \in DOMAIN db |-> [status |-> status, results_json |-> results]]

\* Mutant: the UPDATE sets the status and leaves results_json as it was.
update_job_result_StatusOnly(db, job_id, status, results) ==
  [j \in DOMAIN db |->
     IF j = job_id THEN [status |-> status, results_json |-> db[j].results_json]
     ELSE db[j]]

\* UPDATE jobs SET status = ?, results_json = ? WHERE id = ?
\* results is Optional: json.dumps(results) if results is not None else None
update_job_result(db, job_id, status, results) ==
  [j \in DOMAIN db |->
     IF j = job_id THEN [status |-> status, results_json |-> results] ELSE db[j]]

\* SELECT * FROM jobs WHERE id = ?; None when there is no row
get_job(db, job_id) ==
  IF job_id \notin DOMAIN db THEN None
  ELSE Some([job_id |-> job_id, status |-> db[job_id].status,
             results |-> db[job_id].results_json])

(***************************************************************************)
(* feature_extractor.py: extract_video_features, the blink state machine   *)
(***************************************************************************)

\* ear_blink_threshold: float = 0.21
ear_blink_threshold == 210
\* deque(maxlen=15)
EarWindowMaxLen == 15
\* frames_since_last_blink = 9999
NoBlinkYet == 9999
\* if len(ear_window) >= 5
AdaptiveMinSamples == 5

RECURSIVE SumSeq(_)
SumSeq(q) == IF q = << >> THEN 0 ELSE Head(q) + SumSeq(Tail(q))

\* deque.append with maxlen: the oldest sample is dropped when full
deque_append(window, x) ==
  IF Len(window) >= EarWindowMaxLen THEN Tail(window) \o <<x>>
  ELSE window \o <<x>>

\* sorted copy of a sequence (np.median sorts)
RECURSIVE Insert(_, _)
Insert(q, x) ==
  IF q = << >> THEN <<x>>
  ELSE IF x <= Head(q) THEN <<x>> \o q
  ELSE <<Head(q)>> \o Insert(Tail(q), x)

RECURSIVE Sorted(_)
Sorted(q) == IF q = << >> THEN << >> ELSE Insert(Sorted(Tail(q)), Head(q))

\* twice np.median(q): the middle element, or the mean of the two middle ones
Median2(q) ==
  LET t == Sorted(q)
      n == Len(q)
  IN IF n % 2 = 1 THEN 2 * t[(n + 1) \div 2]
     ELSE t[n \div 2] + t[n \div 2 + 1]

\* lines 200-206, times 8: max(ear_blink_threshold, med - 1.5 * mad) over the
\* window once it holds 5 samples, the static threshold before.  With
\* med2 = 2 med and mad4 = 4 mad, 8 (med - 1.5 mad) = 4 med2 - 3 mad4.
\* Mutant: the adaptive threshold is not floored by the static one.
adaptive_thr8_NoFloor(window) ==
  IF Len(window) >= AdaptiveMinSamples
    THEN LET med2 == Median2(window)
             dev2 == [i \in 1 .. Len(window) |-> Abs(2 * window[i] - med2)]
             mad4 == Median2(dev2)
         IN 4 * med2 - 3 * mad4
    ELSE 8 * ear_blink_threshold

adaptive_thr8(window) ==
  IF Len(window) >= AdaptiveMinSamples
    THEN LET med2 == Median2(window)
             dev2 == [i \in 1 .. Len(window) |-> Abs(2 * window[i] - med2)]
             mad4 == Median2(dev2)
         IN Max(8 * ear_blink_threshold, 4 * med2 - 3 * mad4)
    ELSE 8 * ear_blink_threshold

\* line 197 in double precision.  The samples 0.125 and 0.375 are binary
\* fractions: their sums are exact and a mean equal to the threshold compares
\* equal.  0.3 is not one: sum([0.3] * n) / n is 0.3 for n < 10 and
\* 0.29999999999999993 for n in 10 .. 15, while the median of the same window
\* is 0.3, so from 10 samples on the mean of a constant 0.3 window is below it.
float_mean_rounds_below(window) ==
  /\ Len(window) >= 10
  /\ \A i \in 1 .. Len(window) : window[i] = 300

\* lines 197, 209: ear = sum(ear_window) / len(ear_window); ear < adaptive_thr
is_below_of(window) ==
  \/ 8 * SumSeq(window) < adaptive_thr8(window) * Len(window)
  \/ /\ 8 * SumSeq(window) = adaptive_thr8(window) * Len(window)
     /\ float_mean_rounds_below(window)

\* Mutant: the edge trigger without the refractory test.
blink_counted_NoRefractory(above, below, since, min_frames) == above /\ below

\* Mutant: a dip is counted as soon as the refractory period is over, edge or not.
blink_counted_Deferred(above, below, since, min_frames) ==
  below /\ since >= min_frames

\* line 210: the edge trigger and the refractory test
blink_counted(above, below, since, min_frames) ==
  above /\ below /\ since >= min_frames

\* line 167: max(2, int((fps / frame_stride) * 0.15)); int() truncates
min_frames_between_blinks_of(f, k) == Max(2, (f * 15) \div (k * 100))

\* floor of the square root
RECURSIVE ISqrtBetween(_, _, _)
ISqrtBetween(lo, hi, x) ==
  IF lo >= hi THEN lo
  ELSE LET mid == (lo + hi + 1) \div 2
       IN IF mid * mid <= x THEN ISqrtBetween(mid, hi, x)
          ELSE ISqrtBetween(lo, mid - 1, x)

\* np.std(q): the population standard deviation, sqrt(n sum x^2 - (sum x)^2) / n
np_std(q) ==
  LET n == Len(q)
      sq == [i \in 1 .. n |-> q[i] * q[i]]
      v == n * SumSeq(sq) - SumSeq(q) * SumSeq(q)
  IN ISqrtBetween(0, 46340, v) \div n

\* lines 240-248: the summary returned after the loop
video_summary(count, analyzed, k, f, jitter, np_present) ==
  LET positive == f > 0 /\ analyzed * k > 0
      \* blinks / ((frames_analyzed * frame_stride) / (fps * 60.0)), thousandths
      rate == IF positive THEN (count * f * 60 * 1000) \div (analyzed * k)
              ELSE count * 1000
      jitter_std == IF np_present /\ jitter # << >> THEN np_std(jitter) ELSE 0
  IN VideoFeatureStats(rate, jitter_std, analyzed)

\* The videos: at most MaxOfferedFrames frames are offered to the detector
\* (frame_index a multiple of frame_stride).
MaxOfferedFrames == 6

\* What the capture reports as its frame rate (0: unknown) and the stride
\* extract_features is called with (5 is the default).
FrameRates == { <<0, 5>>, <<30, 1>>, <<25, 1>> }

\* What the landmark detector finds on an offered frame with a face: the raw
\* EAR (thousandths), the nose x position and the inter-ocular distance (px).
FaceFrames ==
  { [ear_raw |-> 125, nose |-> 0, scale |-> 100],
    [ear_raw |-> 375, nose |-> 0, scale |-> 100],
    [ear_raw |-> 375, nose |-> 50, scale |-> 100] }

NoLoop ==
  /\ frame_index = 0
  /\ ear_window = << >>
  /\ prev_ear_above = TRUE
  /\ frames_since_last_blink = NoBlinkYet
  /\ min_frames_between_blinks = 2
  /\ blinks = 0
  /\ frames_analyzed = 0
  /\ prev_nose = None
  /\ jitter_distances = << >>
  /\ blink_frames = << >>

\* Nothing is being extracted.
IdleExtract ==
  /\ deps = [cv2 |-> TRUE, mp |-> TRUE, np_librosa |-> TRUE, ffmpeg |-> TRUE]
  /\ xpc = "done"
  /\ frame_stride = 5
  /\ fps = 30
  /\ cap = "none"
  /\ face_mesh = "none"
  /\ NoLoop
  /\ video_stats = None
  /\ audio_stats = None
  /\ metadata_stats = None
  /\ tmp_wav = 0
  /\ exc = None

\* The module is imported (lines 10-32: np and librosa share one try block, so
\* np is None as soon as either import fails) and extract_features is called.
ExtractCalled ==
  /\ deps \in [cv2 : BOOLEAN, mp : BOOLEAN, np_librosa : BOOLEAN, ffmpeg : BOOLEAN]
  /\ xpc = "video"
  /\ \E fr \in FrameRates : frame_stride = fr[2]
  /\ fps = 30
  /\ cap = "none"
  /\ face_mesh = "none"
  /\ NoLoop
  /\ video_stats = None
  /\ audio_stats = None
  /\ metadata_stats = None
  /\ tmp_wav = 0
  /\ exc = None

\* The locals of extract_video_features go out of scope at its return.
DropLocals ==
  /\ frame_index' = 0
  /\ ear_window' = << >>
  /\ prev_ear_above' = TRUE
  /\ frames_since_last_blink' = NoBlinkYet
  /\ min_frames_between_blinks' = 2
  /\ blinks' = 0
  /\ frames_analyzed' = 0
  /\ prev_nose' = None
  /\ jitter_distances' = << >>
  /\ blink_frames' = << >>

\* lines 139-140: a missing video library gives None
VideoUnavailable ==
  /\ xpc = "video"
  /\ ~(deps.cv2 /\ deps.mp)
  /\ video_stats' = None
  /\ xpc' = "audio"
  /\ UNCHANGED <<deps, frame_stride, fps, cap, face_mesh, loopVars, audio_stats,
                 metadata_stats, tmp_wav, exc, jobVars, vecVars, auxVars>>

\* lines 142-144: the capture cannot be opened
VideoNotOpened ==
  /\ xpc = "video"
  /\ deps.cv2 /\ deps.mp
  /\ cap' = "unopened"
  /\ video_stats' = None
  /\ xpc' = "audio"
  /\ UNCHANGED <<deps, frame_stride, fps, face_mesh, loopVars, audio_stats,
                 metadata_stats, tmp_wav, exc, jobVars, vecVars, auxVars>>

\* lines 142-169: the capture opens; the locals of the loop are set
VideoOpened ==
  /\ xpc = "video"
  /\ deps.cv2 /\ deps.mp
  /\ \E fr \in FrameRates :
       /\ fr[2] = frame_stride
       /\ fps' = (IF fr[1] = 0 THEN 30 ELSE fr[1])
  /\ cap' = "open"
  /\ face_mesh' = "open"
  /\ frame_index' = 0
  /\ ear_window' = << >>
  /\ prev_ear_above' = TRUE
  /\ frames_since_last_blink' = NoBlinkYet
  /\ min_frames_between_blinks' = min_frames_between_blinks_of(fps', frame_stride)
  /\ blinks' = 0
  /\ frames_analyzed' = 0
  /\ prev_nose' = None
  /\ jitter_distances' = << >>
  /\ blink_frames' = << >>
  /\ xpc' = "frames"
  /\ UNCHANGED <<deps, frame_stride, video_stats, audio_stats, metadata_stats,
                 tmp_wav, exc, jobVars, vecVars, auxVars>>

\* cap.read() returns a frame: any video of at most MaxOfferedFrames offered
\* frames, or the scripted stream to its end
MoreFrames ==
  frame_index < frame_stride *
    (IF sc_stream = << >> THEN MaxOfferedFrames ELSE Len(sc_stream))

\* What the detector finds on the offered frame: any face, or the face of the
\* scripted stream (head still).
OfferedFaces ==
  IF sc_stream = << >> THEN FaceFrames
  ELSE { [ear_raw |-> sc_stream[frame_index \div frame_stride + 1],
          nose |-> 0, scale |-> 100] }

\* lines 175-177: a frame between two strides is read and skipped
SkipFrame ==
  /\ xpc = "frames"
  /\ MoreFrames
  /\ frame_index % frame_stride # 0
  /\ frame_index' = frame_index + 1
  /\ UNCHANGED <<deps, xpc, frame_stride, fps, cap, face_mesh, ear_window,
                 prev_ear_above, frames_since_last_blink, min_frames_between_blinks,
                 blinks, frames_analyzed, prev_nose, jitter_distances, blink_frames,
                 video_stats, audio_stats, metadata_stats, tmp_wav, exc,
                 jobVars, vecVars, auxVars>>

\* Mutant: the refractory counter ticks on every offered frame, face or not.
NoFaceFrame_Ticks ==
  /\ xpc = "frames"
  /\ MoreFrames
  /\ frame_index % frame_stride = 0
  /\ frame_index' = frame_index + 1
  /\ frames_since_last_blink' = frames_since_last_blink + 1
  /\ UNCHANGED <<deps, xpc, frame_stride, fps, cap, face_mesh, ear_window,
                 prev_ear_above, min_frames_between_blinks,
                 blinks, frames_analyzed, prev_nose, jitter_distances, blink_frames,
                 video_stats, audio_stats, metadata_stats, tmp_wav, exc,
                 jobVars, vecVars, auxVars>>

\* lines 179-183, 235: an offered frame on which no face is found
NoFaceFrame ==
  /\ xpc = "frames"
  /\ MoreFrames
  /\ frame_index % frame_stride = 0
  /\ frame_index' = frame_index + 1
  /\ UNCHANGED <<deps, xpc, frame_stride, fps, cap, face_mesh, ear_window,
                 prev_ear_above, frames_since_last_blink, min_frames_between_blinks,
                 blinks, frames_analyzed, prev_nose, jitter_distances, blink_frames,
                 video_stats, audio_stats, metadata_stats, tmp_wav, exc,
                 jobVars, vecVars, auxVars>>

\* line 201 with np = None: AttributeError
NoneTypeError == "AttributeError: 'NoneType' object has no attribute 'array'"

\* lines 222-230: the smoothed displacement appended for this frame, if any
\* Mutant: every displacement is appended unsmoothed.
jitter_append_Unsmoothed(jitter, prev, nose, scale) ==
  IF prev = None THEN jitter
  ELSE LET s == IF scale = 0 THEN 1 ELSE scale
       IN jitter \o <<(Abs(nose - Get(prev)) * 1000) \div s>>

jitter_append(jitter, prev, nose, scale) ==
  IF prev = None THEN jitter
  ELSE LET s == IF scale = 0 THEN 1 ELSE scale
           disp == (Abs(nose - Get(prev)) * 1000) \div s
       IN IF jitter # << >>
            THEN jitter \o <<(200 * disp + 800 * jitter[Len(jitter)]) \div 1000>>
            ELSE jitter \o <<disp>>

\* lines 183-235: an offered frame with a face.  The adaptive threshold calls
\* np.array once the window holds 5 samples; with np = None that call raises
\* and nothing in extract_video_features or extract_features catches it.
AnalyzeFrame ==
  /\ xpc = "frames"
  /\ MoreFrames
  /\ frame_index % frame_stride = 0
  /\ \E face \in OfferedFaces :
       LET window == deque_append(ear_window, face.ear_raw)
           is_below == is_below_of(window)
           counted == blink_counted(prev_ear_above, is_below,
                                    frames_since_last_blink, min_frames_between_blinks)
       IN /\ ear_window' = window
          /\ IF Len(window) >= AdaptiveMinSamples /\ ~deps.np_librosa
               THEN /\ xpc' = "raised"
                    /\ exc' = Some(NoneTypeError)
                    /\ UNCHANGED <<frame_index, prev_ear_above, frames_since_last_blink,
                                   blinks, frames_analyzed, prev_nose, jitter_distances,
                                   blink_frames>>
               ELSE /\ blinks' = (IF counted THEN blinks + 1 ELSE blinks)
                    /\ frames_since_last_blink' =
                         (IF counted THEN 0 ELSE frames_since_last_blink) + 1
                    /\ prev_ear_above' = ~is_below
                    /\ blink_frames' = (IF counted
                                          THEN Append(blink_frames, frames_analyzed + 1)
                                          ELSE blink_frames)
                    /\ jitter_distances' =
                         jitter_append(jitter_distances, prev_nose, face.nose, face.scale)
                    /\ prev_nose' = Some(face.nose)
                    /\ frames_analyzed' = frames_analyzed + 1
                    /\ frame_index' = frame_index + 1
                    /\ UNCHANGED <<xpc, exc>>
  /\ UNCHANGED <<deps, frame_stride, fps, cap, face_mesh, min_frames_between_blinks,
                 video_stats, audio_stats, metadata_stats, tmp_wav, jobVars, vecVars, auxVars>>

\* lines 171-173, 237-248: the stream ends; release, close, summarize
EndOfStream ==
  /\ xpc = "frames"
  /\ cap' = "released"
  /\ face_mesh' = "closed"
  /\ video_stats' = Some(video_summary(blinks, frames_analyzed, frame_stride, fps,
                                       jitter_distances, deps.np_librosa))
  /\ DropLocals
  /\ xpc' = "audio"
  /\ UNCHANGED <<deps, frame_stride, fps, audio_stats, metadata_stats, tmp_wav, exc,
                 jobVars, vecVars, auxVars>>

(***************************************************************************)
(* feature_extractor.py: extract_audio_features, extract_metadata_features *)
(***************************************************************************)

\* What librosa's MFCC summary can be for a decoded waveform (thousandths).
DecodedAudio ==
  { AudioFeatureStats(mean, std, 16000, 5000) :
      mean \in {0 - 4500, 1200}, std \in {100, 400} }

\* What ffprobe can report for a file.
ProbedMetadata ==
  { MetadataStats(Some(7000), Some(800000), Some(30000), Some(640), Some(480),
                  Some(44100)),
    MetadataStats(Some(7000), None, Some(30000), Some(640), Some(480), None) }

\* lines 285-286: np or librosa missing gives None
AudioUnavailable ==
  /\ xpc = "audio"
  /\ ~deps.np_librosa
  /\ audio_stats' = None
  /\ xpc' = "metadata"
  /\ UNCHANGED <<deps, frame_stride, fps, cap, face_mesh, loopVars, video_stats,
                 metadata_stats, tmp_wav, exc, jobVars, vecVars, auxVars>>

\* lines 293-296, 310-323: librosa.load on the video file returns a waveform
\* (summarized), returns an empty one (None), or raises (the fallback)
AudioDirectLoad ==
  /\ xpc = "audio"
  /\ deps.np_librosa
  /\ \/ \E a \in DecodedAudio : audio_stats' = Some(a) /\ xpc' = "metadata"
     \/ audio_stats' = None /\ xpc' = "metadata"
     \/ audio_stats' = audio_stats /\ xpc' = "audio_fallback"
  /\ UNCHANGED <<deps, frame_stride, fps, cap, face_mesh, loopVars, video_stats,
                 metadata_stats, tmp_wav, exc, jobVars, vecVars, auxVars>>

\* lines 255-281, 298-300: _extract_audio_with_ffmpeg.  Without ffmpeg it
\* returns None.  Otherwise mkstemp creates the file and ffmpeg writes it, or
\* ffmpeg raises and the except clause returns None with the file left behind,
\* or mkstemp itself raises and None is returned with no file created.
AudioFfmpeg ==
  /\ xpc = "audio_fallback"
  /\ IF ~deps.ffmpeg
       THEN /\ audio_stats' = None /\ xpc' = "metadata" /\ tmp_wav' = tmp_wav
       ELSE \/ /\ tmp_wav' = tmp_wav + 1
               /\ \/ audio_stats' = audio_stats /\ xpc' = "audio_reload"
                  \/ audio_stats' = None /\ xpc' = "metadata"
            \/ audio_stats' = None /\ xpc' = "metadata" /\ tmp_wav' = tmp_wav
  /\ UNCHANGED <<deps, frame_stride, fps, cap, face_mesh, loopVars, video_stats,
                 metadata_stats, exc, jobVars, vecVars, auxVars>>

\* line 303 raising: whatever librosa.load raises on the extracted WAV
ReloadError == "librosa.load raised on the extracted WAV"

\* lines 301-323: librosa.load on the WAV file inside try/finally; the finally
\* clause removes the file; there is no except clause, so an exception of the
\* second load leaves extract_audio_features and extract_features
AudioReload ==
  /\ xpc = "audio_reload"
  /\ tmp_wav' = tmp_wav - 1
  /\ \/ \E a \in DecodedAudio :
          audio_stats' = Some(a) /\ xpc' = "metadata" /\ exc' = exc
     \/ audio_stats' = None /\ xpc' = "metadata" /\ exc' = exc
     \/ /\ audio_stats' = audio_stats
        /\ xpc' = "raised"
        /\ exc' = Some(ReloadError)
  /\ UNCHANGED <<deps, frame_stride, fps, cap, face_mesh, loopVars, video_stats,
                 metadata_stats, jobVars, vecVars, auxVars>>

\* lines 356-400: None without ffmpeg or when the probe raises
ExtractMetadata ==
  /\ xpc = "metadata"
  /\ IF ~deps.ffmpeg THEN metadata_stats' = None
     ELSE \/ metadata_stats' = None
          \/ \E m \in ProbedMetadata : metadata_stats' = Some(m)
  /\ xpc' = "done"
  /\ UNCHANGED <<deps, frame_stride, fps, cap, face_mesh, loopVars, video_stats,
                 audio_stats, tmp_wav, exc, jobVars, vecVars, auxVars>>

\* lines 407-411: extract_features calls the three branches in turn
NextExtract ==
  \/ VideoUnavailable
  \/ VideoNotOpened
  \/ VideoOpened
  \/ SkipFrame
  \/ NoFaceFrame
  \/ AnalyzeFrame
  \/ EndOfStream
  \/ AudioUnavailable
  \/ AudioDirectLoad
  \/ AudioFfmpeg
  \/ AudioReload
  \/ ExtractMetadata

(***************************************************************************)
(* app.py: POST /api/analyze (analyze_video) and GET /api/results          *)
(*                                                                         *)
(* Flask serves requests on concurrent threads, so the steps of different  *)
(* requests interleave; each call analyze_video makes is one step.  A step *)
(* of the try block either returns or raises; what it raises is an         *)
(* Exception and lands in the except clause of line 89.  An exception      *)
(* outside the try block (insert_job, or update_job_result inside the      *)
(* except clause) is unhandled: Flask answers 500.                         *)
(***************************************************************************)

NumRequests == 2
Requests == 1 .. NumRequests

\* Mutant: every request draws the same job id.
JobId_Shared(r) == 1

\* job_id = str(uuid.uuid4()): a fresh id per request
JobId(r) == r

\* What a POST carries: no 'file' part, a part with an empty filename, a file.
Uploads == {"no_file_field", "empty_filename", "file"}

\* What extract_features may return for an upload (thousandths).
SampleFeatures ==
  { ExtractedFeatures(None, None, None),
    ExtractedFeatures(Some(VideoFeatureStats(8000, 250, 12)),
                      Some(AudioFeatureStats(0 - 4500, 100, 16000, 5000)),
                      Some(MetadataStats(Some(5000), Some(800000), Some(30000),
                                         Some(640), Some(480), None))) }

\* What the classifier may return: (prob_real, prob_fake), thousandths.
SampleProbs == { <<400, 600>>, <<820, 180>> }

NoLocals ==
  [upload |-> None, features |-> None, vector |-> <<>>, results |-> None, e |-> None]

HttpResponse(code, body) == [code |-> code, body |-> body]

InitJobs ==
  /\ jobs = << >>
  /\ pc = [r \in Requests |-> "new"]
  /\ local = [r \in Requests |-> NoLocals]
  /\ response = [r \in Requests |-> None]
  /\ polled = [r \in Requests |-> None]
  /\ model_present \in BOOLEAN
  /\ writes = [r \in Requests |-> 0]
  /\ steps_run = [r \in Requests |-> {}]

\* The except clause is entered with e bound to the exception raised.
Raise(r, step, message) ==
  /\ pc' = [pc EXCEPT ![r] = "except"]
  /\ local' = [local EXCEPT ![r].e = Some(message)]
  /\ steps_run' = [steps_run EXCEPT ![r] = @ \cup {step}]

\* Mutant: the empty-filename test of line 33 is missing.
Validate_NoFilenameCheck(r) ==
  /\ pc[r] = "new"
  /\ \E upload \in Uploads :
       /\ local' = [local EXCEPT ![r].upload = Some(upload)]
       /\ IF upload = "no_file_field"
            THEN /\ response' = [response EXCEPT ![r] =
                      Some(HttpResponse(400, [error |-> "No file provided"]))]
                 /\ pc' = [pc EXCEPT ![r] = "done"]
            ELSE /\ response' = response
                 /\ pc' = [pc EXCEPT ![r] = "insert_job"]
  /\ UNCHANGED <<jobs, polled, model_present, writes, steps_run, vecVars, exVars, auxVars>>

\* lines 29-43: the two validations, then the job id and file.save
Validate(r) ==
  /\ pc[r] = "new"
  /\ \E upload \in Uploads :
       /\ local' = [local EXCEPT ![r].upload = Some(upload)]
       /\ IF upload = "no_file_field"
            THEN /\ response' = [response EXCEPT ![r] =
                      Some(HttpResponse(400, [error |-> "No file provided"]))]
                 /\ pc' = [pc EXCEPT ![r] = "done"]
            ELSE IF upload = "empty_filename"
            THEN /\ response' = [response EXCEPT ![r] =
                      Some(HttpResponse(400, [error |-> "No file selected"]))]
                 /\ pc' = [pc EXCEPT ![r] = "done"]
            ELSE /\ response' = response
                 /\ pc' = [pc EXCEPT ![r] = "insert_job"]
  /\ UNCHANGED <<jobs, polled, model_present, writes, steps_run, vecVars, exVars, auxVars>>

\* lines 46-47: insert_job(..., status='processing', ...), outside the try block
InsertJob(r) ==
  /\ pc[r] = "insert_job"
  /\ \/ /\ jobs' = insert_job(jobs, JobId(r), "processing")
        /\ pc' = [pc EXCEPT ![r] = "extract_features"]
        /\ response' = response
     \/ /\ jobs' = jobs
        /\ pc' = [pc EXCEPT ![r] = "done"]
        /\ response' = [response EXCEPT ![r] =
             Some(HttpResponse(500, [error |-> "Internal Server Error"]))]
  /\ UNCHANGED <<local, polled, model_present, writes, steps_run, vecVars, exVars, auxVars>>

\* line 51: features = extract_features(filepath)
ExtractFeaturesStep(r) ==
  /\ pc[r] = "extract_features"
  /\ \/ \E f \in SampleFeatures :
          /\ local' = [local EXCEPT ![r].features = Some(f)]
          /\ pc' = [pc EXCEPT ![r] = "to_feature_vector"]
          /\ steps_run' = [steps_run EXCEPT ![r] = @ \cup {"extract_features"}]
     \/ Raise(r, "extract_features", "extract_features raised")
  /\ UNCHANGED <<jobs, response, polled, model_present, writes, vecVars, exVars, auxVars>>

\* line 52: vector = np.array(features.to_feature_vector(), dtype=float)
BuildVectorStep(r) ==
  /\ pc[r] = "to_feature_vector"
  /\ \/ /\ local' = [local EXCEPT ![r].vector =
                       to_feature_vector(Get(local[r].features))]
        /\ pc' = [pc EXCEPT ![r] = "load_model"]
        /\ steps_run' = [steps_run EXCEPT ![r] = @ \cup {"to_feature_vector"}]
     \/ Raise(r, "to_feature_vector", "to_feature_vector raised")
  /\ UNCHANGED <<jobs, response, polled, model_present, writes, vecVars, exVars, auxVars>>

\* predictor.py load_model: FileNotFoundError when the file does not exist
load_model_raises == ~model_present

\* Mutant: load_model is called before the try block, so its
\* FileNotFoundError is unhandled and the request ends in a 500.
LoadModelStep_Abort(r) ==
  /\ pc[r] = "load_model"
  /\ IF load_model_raises
       THEN /\ pc' = [pc EXCEPT ![r] = "done"]
            /\ response' = [response EXCEPT ![r] =
                 Some(HttpResponse(500, [error |-> "Internal Server Error"]))]
            /\ steps_run' = [steps_run EXCEPT ![r] = @ \cup {"load_model"}]
            /\ local' = local
       ELSE /\ response' = response
            /\ \/ /\ pc' = [pc EXCEPT ![r] = "predict_proba"]
                  /\ steps_run' = [steps_run EXCEPT ![r] = @ \cup {"load_model"}]
                  /\ local' = local
               \/ Raise(r, "load_model", "joblib.load raised")
  /\ UNCHANGED <<jobs, polled, model_present, writes, vecVars, exVars, auxVars>>

\* line 53: model = load_model()
LoadModelStep(r) ==
  /\ pc[r] = "load_model"
  /\ IF load_model_raises
       THEN Raise(r, "load_model", "Model file not found: model.pkl")
       ELSE \/ /\ pc' = [pc EXCEPT ![r] = "predict_proba"]
               /\ steps_run' = [steps_run EXCEPT ![r] = @ \cup {"load_model"}]
               /\ local' = local
            \/ Raise(r, "load_model", "joblib.load raised")
  /\ UNCHANGED <<jobs, response, polled, model_present, writes, vecVars, exVars, auxVars>>

\* lines 54-87: predict_proba, then the score, the legacy features and the summary
PredictStep(r) ==
  /\ pc[r] = "predict_proba"
  /\ \/ \E p \in SampleProbs :
          /\ local' = [local EXCEPT ![r].results =
                         Some(build_results(Get(local[r].features), p[1], p[2]))]
          /\ pc' = [pc EXCEPT ![r] = "store_completed"]
          /\ steps_run' = [steps_run EXCEPT ![r] = @ \cup {"predict_proba"}]
     \/ Raise(r, "predict_proba", "predict_proba raised")
  /\ UNCHANGED <<jobs, response, polled, model_present, writes, vecVars, exVars, auxVars>>

\* line 88: update_job_result(job_id, status='completed', results=results).
\* The UPDATE commits, or sqlite raises and nothing is written.
StoreCompleted(r) ==
  /\ pc[r] = "store_completed"
  /\ \/ /\ jobs' = update_job_result(jobs, JobId(r), "completed", local[r].results)
        /\ writes' = [writes EXCEPT ![JobId(r)] = @ + 1]
        /\ pc' = [pc EXCEPT ![r] = "respond"]
        /\ steps_run' = [steps_run EXCEPT ![r] = @ \cup {"update_job_result"}]
        /\ local' = local
     \/ /\ Raise(r, "update_job_result", "sqlite3.OperationalError")
        /\ UNCHANGED <<jobs, writes>>
  /\ UNCHANGED <<response, polled, model_present, vecVars, exVars, auxVars>>

\* Mutant: the except clause swallows a failure of its own update and the
\* request goes on to its success response.
HandleException_Swallow(r) ==
  /\ pc[r] = "except"
  /\ \/ /\ jobs' = update_job_result(jobs, JobId(r), "failed",
                                     Some([error |-> Get(local[r].e)]))
        /\ writes' = [writes EXCEPT ![JobId(r)] = @ + 1]
     \/ UNCHANGED <<jobs, writes>>
  /\ pc' = [pc EXCEPT ![r] = "respond"]
  /\ steps_run' = [steps_run EXCEPT ![r] = @ \cup {"except"}]
  /\ UNCHANGED <<local, response, polled, model_present, vecVars, exVars, auxVars>>

\* lines 89-90: except Exception as e:
\*   update_job_result(job_id, status='failed', results={'error': str(e)})
\* Nothing encloses this call: when it raises, the request ends in a 500.
HandleException(r) ==
  /\ pc[r] = "except"
  /\ \/ /\ jobs' = update_job_result(jobs, JobId(r), "failed",
                                     Some([error |-> Get(local[r].e)]))
        /\ writes' = [writes EXCEPT ![JobId(r)] = @ + 1]
        /\ pc' = [pc EXCEPT ![r] = "respond"]
        /\ response' = response
     \/ /\ UNCHANGED <<jobs, writes>>
        /\ pc' = [pc EXCEPT ![r] = "done"]
        /\ response' = [response EXCEPT ![r] =
             Some(HttpResponse(500, [error |-> "Internal Server Error"]))]
  /\ steps_run' = [steps_run EXCEPT ![r] = @ \cup {"except"}]
  /\ UNCHANGED <<local, polled, model_present, vecVars, exVars, auxVars>>

\* lines 92-96: the success response; its status field is the literal 'processing'
Respond(r) ==
  /\ pc[r] = "respond"
  /\ response' = [response EXCEPT ![r] =
       Some(HttpResponse(200, [job_id |-> JobId(r), status |-> "processing",
                               message |-> "Video uploaded successfully"]))]
  /\ pc' = [pc EXCEPT ![r] = "done"]
  /\ UNCHANGED <<jobs, local, polled, model_present, writes, steps_run, vecVars, exVars, auxVars>>

\* lines 98-104: get_results(job_id)
get_results(db, job_id) ==
  IF get_job(db, job_id) = None
    THEN HttpResponse(404, [error |-> "Job not found"])
    ELSE HttpResponse(200, Get(get_job(db, job_id)))

\* The client of request r polls with the job id its 200 response gave it.
GetResults(r) ==
  /\ response[r] # None
  /\ Get(response[r]).code = 200
  /\ polled' = [polled EXCEPT ![r] =
       Some(get_results(jobs, Get(response[r]).body.job_id))]
  /\ UNCHANGED <<jobs, pc, local, response, model_present, writes, steps_run, vecVars, exVars, auxVars>>

NextJobs ==
  \E r \in Requests :
    \/ Validate(r)
    \/ InsertJob(r)
    \/ ExtractFeaturesStep(r)
    \/ BuildVectorStep(r)
    \/ LoadModelStep(r)
    \/ PredictStep(r)
    \/ StoreCompleted(r)
    \/ HandleException(r)
    \/ Respond(r)
    \/ GetResults(r)

(***************************************************************************)
(* to_feature_vector on every combination of summaries                     *)
(***************************************************************************)

\* What the three branches can hand to the vector (thousandths).  The blink
\* rate is a blink count over a positive duration, or the count itself; the
\* jitter and the MFCC standard deviation are np.std results; the MFCC mean is
\* np.mean over cepstral coefficients, of either sign.
VideoSummaries ==
  { VideoFeatureStats(0, 0, 0), VideoFeatureStats(8000, 250, 12),
    VideoFeatureStats(15000, 100, 24) }

AudioSummaries ==
  { AudioFeatureStats(mean, std, 16000, 5000) :
      mean \in {0 - 4500, 0, 1200}, std \in {100, 400} }

Optional(S) == {None} \cup { Some(x) : x \in S }

\* ffprobe's values; a field the probe does not report is None (_safe_int,
\* _safe_float, _fps_from_fraction).
MetadataSummaries ==
  { MetadataStats(dur, br, avg_fps, w, h, sr) :
      dur \in Optional({7000}), br \in Optional({800000}),
      avg_fps \in Optional({30000}), w \in Optional({640}),
      h \in Optional({480}), sr \in Optional({44100}) }

AllFeatures ==
  { ExtractedFeatures(v, a, m) :
      v \in Optional(VideoSummaries), a \in Optional(AudioSummaries),
      m \in Optional(MetadataSummaries) }

\* No summary is being written.
IdleAux ==
  /\ sm_score = 0
  /\ sm_legacy = [blink_rate |-> 0, facial_jitter |-> 0, audio_mfcc_variance |-> 0]
  /\ sm_summary = << >>
  /\ sm_features = None
  /\ sc_stream = << >>

IdleVector ==
  /\ fv_features = ExtractedFeatures(None, None, None)
  /\ fv_vector = << >>

IdleJobs ==
  /\ jobs = << >>
  /\ pc = [r \in Requests |-> "done"]
  /\ local = [r \in Requests |-> NoLocals]
  /\ response = [r \in Requests |-> None]
  /\ polled = [r \in Requests |-> None]
  /\ model_present = TRUE
  /\ writes = [r \in Requests |-> 0]
  /\ steps_run = [r \in Requests |-> {}]

InitVector ==
  /\ fv_features \in AllFeatures
  /\ fv_vector = << >>
  /\ IdleJobs
  /\ IdleExtract
  /\ IdleAux

\* features.to_feature_vector()
ToFeatureVector ==
  /\ fv_vector = << >>
  /\ fv_vector' = to_feature_vector(fv_features)
  /\ UNCHANGED <<fv_features, jobVars, exVars, auxVars>>

NextVector == ToFeatureVector

SpecVector == InitVector /\ [][NextVector]_vars

(***************************************************************************)
(* The narrative summary as a function of its inputs (SpecSummary)         *)
(***************************************************************************)

\* Scores around the 80.0 boundary, thousandths.
SummaryScores == {0, 79900, 79999, 80000, 80100, 100000}

\* Legacy features around the three thresholds (10, 0.2, 0.3), thousandths.
SummaryLegacy ==
  [blink_rate : {0, 9999, 10000, 25000},
   facial_jitter : {0, 199, 200, 450},
   audio_mfcc_variance : {0, 299, 300, 800}]

InitSummary ==
  /\ sm_score \in SummaryScores
  /\ sm_legacy \in SummaryLegacy
  /\ sm_summary = << >>
  /\ sm_features = None
  /\ sc_stream = << >>
  /\ IdleJobs
  /\ IdleVector
  /\ IdleExtract

\* app.py lines 64-76
SummaryText ==
  /\ sm_summary = << >>
  /\ sm_summary' = summary_text(sm_score, sm_legacy)
  /\ UNCHANGED <<sm_score, sm_legacy, sm_features, sc_stream, jobVars, vecVars, exVars>>

NextSummary == SummaryText

SpecSummary == InitSummary /\ [][NextSummary]_vars

(***************************************************************************)
(* From the extracted features to the summary (SpecLegacy)                 *)
(***************************************************************************)

\* Extracted features around the three thresholds, each summary present or
\* absent (thousandths).
LegacyInputs ==
  { ExtractedFeatures(v, a, None) :
      v \in Optional({ VideoFeatureStats(rate, jitter, 12) :
                         rate \in {0, 9999, 10000, 25000},
                         jitter \in {0, 199, 200} }),
      a \in Optional({ AudioFeatureStats(0 - 4500, std, 16000, 5000) :
                         std \in {0, 299, 300} }) }

InitLegacy ==
  /\ sm_score \in SummaryScores
  /\ sm_features \in { Some(f) : f \in LegacyInputs }
  /\ sm_legacy = [blink_rate |-> 0, facial_jitter |-> 0, audio_mfcc_variance |-> 0]
  /\ sm_summary = << >>
  /\ sc_stream = << >>
  /\ IdleJobs
  /\ IdleVector
  /\ IdleExtract

\* app.py lines 57-76: the legacy fields, then the summary
LegacySummary ==
  /\ sm_features # None
  /\ sm_summary = << >>
  /\ sm_legacy' = legacy_features(Get(sm_features))
  /\ sm_summary' = summary_text(sm_score, legacy_features(Get(sm_features)))
  /\ UNCHANGED <<sm_score, sm_features, sc_stream, jobVars, vecVars, exVars>>

NextLegacy == LegacySummary

SpecLegacy == InitLegacy /\ [][NextLegacy]_vars

Init == InitJobs /\ IdleVector /\ IdleExtract /\ IdleAux

Spec == Init /\ [][NextJobs]_vars

\* Scenario A: 20 analyzed frames at 30 fps, stride 5, threshold 0.21, the raw
\* EAR 0.30 except for one dip to 0.10.
ScenarioALen == 20

ScenarioAStreams ==
  { [i \in 1 .. ScenarioALen |-> IF i = d THEN 100 ELSE 300] :
      d \in 1 .. ScenarioALen }

InitScenarioA ==
  /\ ExtractCalled
  /\ deps = [cv2 |-> TRUE, mp |-> TRUE, np_librosa |-> TRUE, ffmpeg |-> TRUE]
  /\ frame_stride = 5
  /\ sc_stream \in ScenarioAStreams
  /\ sm_score = 0
  /\ sm_legacy = [blink_rate |-> 0, facial_jitter |-> 0, audio_mfcc_variance |-> 0]
  /\ sm_summary = << >>
  /\ sm_features = None
  /\ IdleJobs
  /\ IdleVector

\* extract_video_features on the scripted stream
NextScenarioA ==
  \/ VideoOpened
  \/ SkipFrame
  \/ AnalyzeFrame
  \/ EndOfStream

SpecScenarioA == InitScenarioA /\ [][NextScenarioA]_vars

\* Streams longer than the window: periodic patterns of closed (0.125) and
\* open (0.375) eyes, p frames per period of which q closed.
LongStreamLen == 17

LongStreams ==
  { [i \in 1 .. LongStreamLen |-> IF i % p < q THEN 125 ELSE 375] :
      p \in 1 .. 6, q \in 0 .. 6 }

\* extract_video_features with every library present, on any short video with
\* a face on every offered frame and on the scripted streams.
InitVideo ==
  /\ ExtractCalled
  /\ deps = [cv2 |-> TRUE, mp |-> TRUE, np_librosa |-> TRUE, ffmpeg |-> TRUE]
  /\ sc_stream \in {<< >>} \cup LongStreams \cup ScenarioAStreams
  /\ sm_score = 0
  /\ sm_legacy = [blink_rate |-> 0, facial_jitter |-> 0, audio_mfcc_variance |-> 0]
  /\ sm_summary = << >>
  /\ sm_features = None
  /\ IdleJobs
  /\ IdleVector

SpecVideo == InitVideo /\ [][NextScenarioA]_vars

InitExtract == ExtractCalled /\ IdleJobs /\ IdleVector /\ IdleAux

SpecExtract == InitExtract /\ [][NextExtract]_vars

(***************************************************************************)
(* Properties of the HTTP layer, checked under Spec                        *)
(***************************************************************************)

JobIds == { JobId(r) : r \in Requests }
Terminal == {"completed", "failed"}
Answered200(r) == response[r] # None /\ Get(response[r]).code = 200
ScoreKeys == {"authenticity_score", "confidence", "probabilities", "features", "summary"}
ModelNotFound == "Model file not found: model.pkl"

C2_ResponseAfterPipeline ==
  \A r \in Requests :
    Answered200(r) =>
      /\ Get(response[r]).body.status = "processing"
      /\ Get(response[r]).body.job_id \in DOMAIN jobs
      /\ jobs[Get(response[r]).body.job_id].status \in Terminal
      /\ polled[r] # None =>
           /\ Get(polled[r]).code = 200
           /\ Get(polled[r]).body.status \in Terminal

\* C2 witness: a client has polled the job its response named.
C2_Witness ==
  \E r \in Requests :
    /\ Answered200(r)
    /\ polled[r] # None
    /\ Get(polled[r]).body.status = "completed"

\* C3: when a step of the per-job run has raised (feature extraction, vector
\* building, classification or storing the completed result), the request
\* ends with the job 'failed', its results {error: message}, and the normal
\* 200 response.
C3_ExceptionsCaughtAtJobBoundary ==
  \A r \in Requests :
    (pc[r] = "done" /\ local[r].e # None) =>
      /\ jobs[JobId(r)] =
           [status |-> "failed", results_json |-> Some([error |-> Get(local[r].e)])]
      /\ Get(response[r]).code = 200

Rejected(r) == local[r].upload \in {Some("no_file_field"), Some("empty_filename")}

\* C5: an upload with no 'file' field or an empty filename is answered 400
\* with a reason string in the same step, which leaves the jobs table as it
\* was; no row is ever created for it and no pipeline step ever runs.
C5_ValidationRejects ==
  /\ [](\A r \in Requests :
          Rejected(r) =>
            /\ pc[r] = "done"
            /\ response[r] # None
            /\ Get(response[r]).code = 400
            /\ Get(response[r]).body.error \in {"No file provided", "No file selected"}
            /\ JobId(r) \notin DOMAIN jobs
            /\ steps_run[r] = {}
            /\ writes[JobId(r)] = 0)
  /\ [][ \A r \in Requests :
           (pc[r] = "new" /\ Rejected(r)') => (jobs' = jobs /\ writes' = writes) ]_vars

\* C5 witness: a rejected upload, while another request's job exists.
C5_Witness ==
  \E r \in Requests :
    /\ Rejected(r)
    /\ Get(response[r]).code = 400
    /\ jobs # << >>

\* C6: in every state of the jobs table a row's results match its status:
\* 'processing' has no results, 'completed' has a score payload with exactly
\* the keys authenticity_score, confidence, probabilities, features, summary
\* (so no error key), 'failed' has a payload with the error key and no score.
C6_ResultsMatchStatus ==
  \A j \in DOMAIN jobs :
    /\ jobs[j].status \in {"processing", "completed", "failed"}
    /\ jobs[j].status = "processing" => jobs[j].results_json = None
    /\ jobs[j].status = "completed" =>
         /\ jobs[j].results_json # None
         /\ DOMAIN Get(jobs[j].results_json) = ScoreKeys
    /\ jobs[j].status = "failed" =>
         /\ jobs[j].results_json # None
         /\ DOMAIN Get(jobs[j].results_json) = {"error"}
    /\ Get(get_job(jobs, j)).results = jobs[j].results_json

\* C6 witness: the table holds a completed job and a failed job.
C6_Witness ==
  \E j \in DOMAIN jobs, k \in DOMAIN jobs :
    /\ jobs[j].status = "completed"
    /\ jobs[k].status = "failed"

(***************************************************************************)
(* Properties of the feature vector, checked under SpecVector              *)
(***************************************************************************)

Built == fv_vector # << >>

\* The value a slot must hold: the field's value when its summary and the
\* field are present, 0 otherwise.
VideoField(f, name) == IF f.video = None THEN 0 ELSE Get(f.video)[name]
AudioField(f, name) == IF f.audio = None THEN 0 ELSE Get(f.audio)[name]
MetaField(f, name) ==
  IF f.metadata = None THEN 0
  ELSE IF Get(f.metadata)[name] = None THEN 0
  ELSE Get(Get(f.metadata)[name])

\* C7: for every combination of present and absent summaries (and of absent
\* metadata fields) the vector has exactly 10 entries, in the order blink
\* rate, jitter std, mfcc mean, mfcc std, duration, bit rate, video fps,
\* width, height, audio sample rate; a slot holds its source value when
\* present and 0 when its summary or field is absent.
C7_VectorLayout ==
  Built =>
    /\ Len(fv_vector) = 10
    /\ fv_vector[1] = VideoField(fv_features, "avg_blink_rate_per_minute")
    /\ fv_vector[2] = VideoField(fv_features, "facial_jitter_std_dev")
    /\ fv_vector[3] = AudioField(fv_features, "audio_mfcc_mean")
    /\ fv_vector[4] = AudioField(fv_features, "audio_mfcc_std")
    /\ fv_vector[5] = MetaField(fv_features, "duration_seconds")
    /\ fv_vector[6] = MetaField(fv_features, "bit_rate")
    /\ fv_vector[7] = MetaField(fv_features, "video_avg_fps")
    /\ fv_vector[8] = MetaField(fv_features, "video_width")
    /\ fv_vector[9] = MetaField(fv_features, "video_height")
    /\ fv_vector[10] = MetaField(fv_features, "audio_sample_rate")

\* C7 witness: a vector built with the video summary absent, the audio
\* summary present and a metadata summary some of whose fields are absent.
C7_Witness ==
  /\ Built
  /\ fv_features.video = None
  /\ fv_features.audio # None
  /\ fv_features.metadata # None
  /\ Get(fv_features.metadata).bit_rate = None
  /\ Get(fv_features.metadata).video_width # None

\* C8 as claimed: every one of the 10 entries of the vector is non-negative.
C8_AllSlotsNonNegative ==
  Built => \A i \in 1 .. Len(fv_vector) : fv_vector[i] >= 0

\* C8 as amended: every entry other than slot 2 is non-negative (the blink
\* rate, the two standard deviations, and the probed metadata values, which
\* ffprobe reports non-negative); slot 2 carries the audio MFCC mean
\* unclamped and is negative exactly when that mean is.
C8_NonNegativeExceptMfccMean ==
  Built =>
    /\ \A i \in (1 .. Len(fv_vector)) \ {3} : fv_vector[i] >= 0
    /\ fv_vector[3] < 0 <=>
         (fv_features.audio # None /\ Get(fv_features.audio).audio_mfcc_mean < 0)

\* C8 witness: a vector whose slot 2 is negative.
C8_Witness == Built /\ fv_vector[3] < 0

(***************************************************************************)
(* Properties of extract_features (SpecExtract)                            *)
(***************************************************************************)

InLoop == xpc = "frames"

\* C9: refractory invariant.  For any sequence of EAR samples and no-face
\* frames, every counted blink is recorded once, and any two counted blinks
\* lie at least min_frames_between_blinks analyzed frames apart.
C9_RefractoryInvariant ==
  InLoop =>
    /\ blinks = Len(blink_frames)
    /\ \A i, j \in 1 .. Len(blink_frames) :
         i < j => blink_frames[j] - blink_frames[i] >= min_frames_between_blinks

\* C9 witness: with a refractory period of 3 analyzed frames or more, two
\* blinks are counted exactly that far apart.
C9_Witness ==
  /\ InLoop
  /\ min_frames_between_blinks >= 3
  /\ \E i \in 1 .. Len(blink_frames) - 1 :
       blink_frames[i + 1] - blink_frames[i] = min_frames_between_blinks

\* C10: a missing dependency is signalled by an absent summary and never by
\* an exception: with the numeric/audio library missing, extract_features
\* does not raise.
C10_MissingDependencyNeverRaises == ~(~deps.np_librosa /\ xpc = "raised")

Returned == xpc \in {"metadata", "done", "raised"}

\* C11: extract_audio_features returns an absent summary and does not raise
\* when both decode paths fail, the decode of the re-encoded waveform included.
C11_AudioFailureReturnsAbsent == exc # Some(ReloadError)

\* C12: no temporary audio file outlives extract_audio_features, whether the
\* re-encode and the second decode succeed or fail.
C12_NoTempFileOutlivesCall == Returned => tmp_wav = 0

\* C13: once extract_video_features has been left, by a return or by an
\* exception, the capture and the landmark detector it opened are released.
C13_HandlesReleasedOnExit ==
  xpc \in {"audio", "audio_fallback", "audio_reload", "metadata", "done", "raised"}
    => cap # "open" /\ face_mesh # "open"

(***************************************************************************)
(* Properties of the narrative summary (SpecSummary)                       *)
(***************************************************************************)

Summarized == sm_summary # << >>

\* The flags a result triggers, in the fixed order.
TriggeredFlags ==
  SelectSeq(<<[on |-> sm_legacy.blink_rate < 10000, text |-> "low blink rate"],
              [on |-> sm_legacy.facial_jitter >= 200, text |-> "high facial jitter"],
              [on |-> sm_legacy.audio_mfcc_variance >= 300,
               text |-> "synthetic-sounding audio patterns"]>>,
            LAMBDA f : f.on)

\* The flags joined by ", ", or the fallback phrase when there is none.
ExpectedReason ==
  IF TriggeredFlags = << >> THEN <<"multiple subtle cues">>
  ELSE [i \in 1 .. 2 * Len(TriggeredFlags) - 1 |->
          IF i % 2 = 1 THEN TriggeredFlags[(i + 1) \div 2].text ELSE ", "]

\* C14: the summary is the "real video" sentence when the score is at least
\* 80, whatever the features; otherwise it is "Potential deepfake indicators:
\* X." with X the triggered flags in the fixed order joined by ", ", or
\* "multiple subtle cues" when no flag is triggered.
C14_SummaryOfScoreAndFlags ==
  Summarized =>
    IF sm_score >= 80000
      THEN sm_summary = <<"This appears to be a real video.">>
      ELSE sm_summary =
             <<"Potential deepfake indicators: ">> \o ExpectedReason \o <<".">>

\* C14 witness: a score below 80 with all three flags triggered is summarized.
C14_Witness ==
  /\ Summarized
  /\ sm_score < 80000
  /\ Len(TriggeredFlags) = 3
  /\ Len(sm_summary) = 7

(***************************************************************************)
(* Scenario A (SpecScenarioA)                                              *)
(***************************************************************************)

StreamAnalyzed ==
  /\ sc_stream # << >>
  /\ InLoop
  /\ frames_analyzed = Len(sc_stream)

\* C15: scenario A.  At 30 fps with stride 5 and threshold 0.21, a stream of
\* 20 analyzed frames whose raw EAR is 0.30 except for one dip to 0.10 yields
\* exactly one counted blink.
C15_ScenarioAOneBlink == StreamAnalyzed => blinks = 1

(***************************************************************************)
(* Concurrent uploads (Spec)                                               *)
(***************************************************************************)

Owner(j) == CHOOSE r \in Requests : JobId(r) = j

\* What the pipeline of request r, on its own, says its job row must hold.
OwnOutcome(r) ==
  IF local[r].e # None
    THEN [status |-> "failed", results_json |-> Some([error |-> Get(local[r].e)])]
    ELSE [status |-> "completed", results_json |-> local[r].results]

\* C16: under any interleaving of upload requests a job row is created and
\* changed only by a step of the request that owns its job id, each request
\* owns one id, and a row's final status and results are the outcome of its
\* own request's pipeline, never another request's.
C16_JobsIsolated ==
  /\ [](\A r, q \in Requests : JobId(r) = JobId(q) => r = q)
  /\ [](\A j \in DOMAIN jobs :
          jobs[j].status \in Terminal => jobs[j] = OwnOutcome(Owner(j)))
  /\ [][ \A j \in JobIds :
           (\/ (j \in DOMAIN jobs') # (j \in DOMAIN jobs)
            \/ (j \in DOMAIN jobs /\ j \in DOMAIN jobs' /\ jobs'[j] # jobs[j]))
             => /\ pc'[Owner(j)] # pc[Owner(j)]
                /\ \A q \in Requests \ {Owner(j)} :
                     pc'[q] = pc[q] /\ local'[q] = local[q] ]_vars

\* C16 witness: two uploads overlap; one has stored 'completed' while the
\* other, with a different outcome, is in its except clause about to store.
C16_Witness ==
  \E r, q \in Requests :
    /\ r # q
    /\ JobId(r) \in DOMAIN jobs /\ jobs[JobId(r)].status = "completed"
    /\ pc[r] = "respond"
    /\ JobId(q) \in DOMAIN jobs /\ jobs[JobId(q)].status = "processing"
    /\ pc[q] = "except"

(***************************************************************************)
(* The blink state machine, frame by frame (SpecExtract)                   *)
(***************************************************************************)

\* C17: a blink is counted only on a falling edge, the previous analyzed
\* frame of the same video having been observed at or above the threshold;
\* in particular no blink is counted on the first analyzed frame of a video,
\* before which no frame was observed.
C17_BlinkOnlyAfterObservedAbove ==
  InLoop => \A i \in 1 .. Len(blink_frames) : blink_frames[i] >= 2

\* n is (fps / k) * 0.15 rounded to the nearest integer (either one at a tie)
NearestToProduct(n, f, k) == 2 * Abs(n * k * 100 - f * 15) <= k * 100

\* C18: for every frame rate and stride the refractory length in use is
\* max(2, round((fps / k) * 0.15)): the product rounded to the nearest
\* integer, not truncated.
C18_RefractoryLengthRounded ==
  InLoop =>
    \E n \in 0 .. fps :
      /\ NearestToProduct(n, fps, frame_stride)
      /\ min_frames_between_blinks = Max(2, n)

\* A step of the loop that consumes an offered frame.
OfferedFrameStep ==
  /\ InLoop
  /\ frame_index % frame_stride = 0
  /\ frame_index' = frame_index + 1

analyzerState ==
  <<ear_window, prev_ear_above, frames_since_last_blink, blinks, prev_nose,
    jitter_distances, frames_analyzed>>

\* C19: an offered frame is either analyzed, or, when no face is detected on
\* it, leaves the whole analyzer state unchanged: the EAR window, the
\* above/below flag, the frames-since-last-blink counter, the blink count,
\* the previous nose position, the jitter sequence and frames_analyzed.
C19_NoFaceFrameChangesNothing ==
  [][ OfferedFrameStep =>
        \/ frames_analyzed' = frames_analyzed + 1
        \/ analyzerState' = analyzerState ]_vars

\* C19 witness: in a video with a counted blink and a refractory period under
\* way, more frames were offered than analyzed.
C19_Witness ==
  /\ InLoop
  /\ frame_stride = 1
  /\ blinks >= 1
  /\ frames_since_last_blink < min_frames_between_blinks
  /\ frame_index >= frames_analyzed + 2

(***************************************************************************)
(* The sliding window and the threshold in use (SpecVideo)                 *)
(***************************************************************************)

\* The k-th smallest sample of a window.
KthSmallest(w, k) ==
  CHOOSE x \in { w[i] : i \in 1 .. Len(w) } :
    /\ Cardinality({ i \in 1 .. Len(w) : w[i] < x }) < k
    /\ Cardinality({ i \in 1 .. Len(w) : w[i] <= x }) >= k

\* Twice the median.
TwiceMedian(w) ==
  IF Len(w) % 2 = 1 THEN 2 * KthSmallest(w, (Len(w) + 1) \div 2)
  ELSE KthSmallest(w, Len(w) \div 2) + KthSmallest(w, Len(w) \div 2 + 1)

\* Eight times the threshold the claim prescribes for a window: the static
\* threshold below 5 samples, max(static, median - 1.5 MAD) from 5 on.
ThresholdInUse8(w) ==
  IF Len(w) < 5 THEN 8 * 210
  ELSE LET m2 == TwiceMedian(w)
           mad4 == TwiceMedian([i \in 1 .. Len(w) |-> Abs(2 * w[i] - m2)])
       IN Max(8 * 210, 4 * m2 - 3 * mad4)

\* The smoothed EAR (the mean of the window, in double precision) is below
\* the prescribed threshold.
BelowThresholdInUse(w) ==
  \/ 8 * SumSeq(w) < ThresholdInUse8(w) * Len(w)
  \/ 8 * SumSeq(w) = ThresholdInUse8(w) * Len(w) /\ float_mean_rounds_below(w)

\* C20: on every analyzed frame the smoothed EAR is compared against the
\* static threshold while the window holds fewer than 5 samples and against
\* max(static, median - 1.5 MAD) from 5 samples on, never against less than
\* the static threshold; the window never holds more than 15 samples and is
\* the most recent ones, the oldest evicted first.
C20_ThresholdAndWindow ==
  (InLoop /\ frames_analyzed >= 1) =>
    /\ prev_ear_above = ~BelowThresholdInUse(ear_window)
    /\ ThresholdInUse8(ear_window) >= 8 * 210
    /\ Len(ear_window) = (IF frames_analyzed < 15 THEN frames_analyzed ELSE 15)
    /\ sc_stream # << >> =>
         ear_window = SubSeq(sc_stream, frames_analyzed - Len(ear_window) + 1,
                             frames_analyzed)

\* C20 witness: the window is full, older samples have been evicted, and the
\* threshold in use is the adaptive one, above the static threshold.
C20_Witness ==
  /\ InLoop
  /\ frames_analyzed > 15
  /\ Len(ear_window) = 15
  /\ ThresholdInUse8(ear_window) > 8 * 210
  /\ ear_window # SubSeq(sc_stream, 1, 15)

(***************************************************************************)
(* The jitter sequence (SpecExtract)                                       *)
(***************************************************************************)

\* The normalized displacement of the nose between the previous analyzed
\* frame and this one, thousandths (the inter-ocular distance is 100 px on
\* every frame offered).
StepDisplacement == (Abs(Get(prev_nose') - Get(prev_nose)) * 1000) \div 100

\* C21: the smoothed-jitter sequence holds one sample per analyzed frame
\* after the first (length frames_analyzed - 1, or 0 when nothing was
\* analyzed); the first sample is the unsmoothed displacement and each later
\* one is 0.2 * displacement + 0.8 * previous sample; and a video without any
\* analyzed frame is summarized as frames_analyzed 0, blink rate 0.0, jitter 0.0.
C21_JitterSequence ==
  /\ [](InLoop =>
          Len(jitter_distances) =
            (IF frames_analyzed >= 1 THEN frames_analyzed - 1 ELSE 0))
  /\ [](\A v \in video_stats :
          v.frames_analyzed = 0 =>
            v.avg_blink_rate_per_minute = 0 /\ v.facial_jitter_std_dev = 0)
  /\ [][ (InLoop /\ InLoop') =>
           IF frames_analyzed' = frames_analyzed
             THEN jitter_distances' = jitter_distances
           ELSE IF frames_analyzed = 0
             THEN jitter_distances' = << >>
           ELSE IF frames_analyzed = 1
             THEN jitter_distances' = <<StepDisplacement>>
           ELSE jitter_distances' =
                  Append(jitter_distances,
                         (200 * StepDisplacement
                            + 800 * jitter_distances[Len(jitter_distances)])
                           \div 1000) ]_vars

\* C21 witness: four frames analyzed, three samples, the head moved on the
\* second frame and then stood still, so that the samples decay.
C21_Witness ==
  /\ InLoop
  /\ frames_analyzed = 4
  /\ Len(jitter_distances) = 3
  /\ jitter_distances[1] = 500
  /\ jitter_distances[2] = 400
  /\ jitter_distances[3] = 320

(***************************************************************************)
(* Falling edges inside the refractory period (SpecExtract)                *)
(***************************************************************************)

\* A step of the loop that analyzes a frame.
AnalyzedStep == InLoop /\ InLoop' /\ frames_analyzed' = frames_analyzed + 1

\* C22: a falling edge inside the refractory period is lost, not deferred.
\* The above/below flag follows the observation of every analyzed frame,
\* blink counted or not; an edge met before the refractory period is over
\* counts nothing; and no blink is counted on a frame whose previous analyzed
\* frame was below the threshold, so the dip is not counted later while the
\* EAR stays below: the EAR has to be observed at or above the threshold first.
C22_LostEdgeNotDeferred ==
  [][ AnalyzedStep =>
        /\ prev_ear_above' = ~BelowThresholdInUse(ear_window')
        /\ (prev_ear_above /\ ~prev_ear_above'
              /\ frames_since_last_blink < min_frames_between_blinks)
             => blinks' = blinks
        /\ ~prev_ear_above => blinks' = blinks ]_vars

\* C22 witness: a blink on frame 1, eyes open on frame 2, a dip on frame 3
\* inside the refractory period of 3 or 4 frames, and the eyes still closed on
\* frame 4, the refractory period over: one blink only.
C22_Witness ==
  /\ InLoop
  /\ min_frames_between_blinks >= 3
  /\ ear_window = <<125, 375, 125, 125>>
  /\ frames_since_last_blink >= min_frames_between_blinks
  /\ ~prev_ear_above
  /\ blink_frames = <<1>>
  /\ blinks = 1

(***************************************************************************)
(* Absent summaries and the narrative (SpecLegacy)                         *)
(***************************************************************************)

Phrases == { sm_summary[i] : i \in 1 .. Len(sm_summary) }

\* The video summary is absent or reports a blink rate of 0.
NoBlinkEvidence ==
  \A v \in Get(sm_features).video : v.avg_blink_rate_per_minute = 0

\* C23: whenever the video summary is absent or reports a blink rate of 0 and
\* the score is below 80, the summary contains "low blink rate"; the fallback
\* "multiple subtle cues" appears only when a video summary exists with blink
\* rate >= 10 and jitter < 0.2 and the audio MFCC std, 0 when the audio
\* summary is absent, is < 0.3.
C23_AbsentVideoReadsLowBlinkRate ==
  (sm_features # None /\ Summarized) =>
    /\ (NoBlinkEvidence /\ sm_score < 80000) => "low blink rate" \in Phrases
    /\ "multiple subtle cues" \in Phrases =>
         /\ \E v \in Get(sm_features).video :
              /\ v.avg_blink_rate_per_minute >= 10000
              /\ v.facial_jitter_std_dev < 200
         /\ \A a \in Get(sm_features).audio : a.audio_mfcc_std < 300

\* C23 witness: no video summary, a score below 80, and the summary written.
C23_Witness ==
  /\ sm_features # None
  /\ Summarized
  /\ Get(sm_features).video = None
  /\ sm_score < 80000
  /\ "low blink rate" \in Phrases

=============================================================================
